---- MODULE Spec2Model ----
(***************************************************************************)
(* Model of app.py: a Flask service that builds a "radio" playlist from    *)
(* the currently playing Spotify track.  Three handlers (/trigger,         *)
(* /trigger-openai, /trigger-reccobeats) are modelled one upstream call at *)
(* a time; the upstream services (Spotify, OpenAI, ReccoBeats) are the     *)
(* environment and answer nondeterministically, an exception included.     *)
(* Python values are records: a dict is a record of its keys, None is the  *)
(* record None below, a list is a sequence.                                *)
(***************************************************************************)
EXTENDS Integers, Sequences, FiniteSets, TLC

\* ------------------------------------------------------------------ bounds
\* Longest freely chosen upstream list (items, suggestions, content).
MaxShort == 3
\* The probe search reports totals up to OffsetRoom + MaxExtra.
MaxExtra == 2

\* ------------------------------------------------------- program constants
ProbeLimit == 1
OffsetRoom == 20
SearchLimit == 20
ResolveLimit == 1
ReccoSize == 20
HTTP_OK == 200
HTTP_BAD_REQUEST == 400
HTTP_ERROR == 500

\* ------------------------------------------------------------ Python values
None == [none |-> TRUE]
\* A local that has not been assigned yet.
Unset == [unset |-> TRUE]

\* dict.get(key, default)
Get(d, key, default) == IF key \in DOMAIN d THEN d[key] ELSE default

\* Python truth value of None, a dict or a list: None and the empty
\* container are false.
Falsy(v) == (v = None) \/ (DOMAIN v = {})

\* Parsed JSON values carry their Python type.
PyList(l) == [type |-> "list", value |-> l]
PyDict(d) == [type |-> "dict", value |-> d]
PyStr(t) == [type |-> "str", value |-> t]
IsInstance(v, t) == v.type = t

\* A text is either the JSON value it spells, or, when it is not JSON, its
\* characters.
JsonText(v) == [syntax |-> "json", value |-> v]
NotJson(raw) == [syntax |-> "invalid", raw |-> raw]
Prose == NotJson("Sure! Here are some tracks")
EmptyText == NotJson("")
TruncatedArray == NotJson("[{\"track_name\": \"t1\"")
TrailingData == NotJson("[] trailing")
InvalidTexts == {Prose, EmptyText, TruncatedArray, TrailingData}

\* str(e) of the JSONDecodeError json.loads raises for each of InvalidTexts:
\* the message names what the decoder expected and where it stopped.
JSONDecodeError(raw) ==
    CASE raw = Prose.raw -> "Expecting value: line 1 column 1 (char 0)"
      [] raw = EmptyText.raw -> "Expecting value: line 1 column 1 (char 0)"
      [] raw = TruncatedArray.raw ->
           "Expecting ',' delimiter: line 1 column 21 (char 20)"
      [] raw = TrailingData.raw -> "Extra data: line 1 column 4 (char 3)"

\* The outcome of a parse that raised, with the exception's message.
ParseError(text) == [error |-> JSONDecodeError(text.raw)]
IsParseError(v) == "error" \in DOMAIN v

\* json.loads(text) / response.json(): the value, or the parse error of a
\* text that is not JSON.
JsonLoads(text) == IF text.syntax = "json" THEN text.value ELSE ParseError(text)

\* str.strip(): the content with its surrounding whitespace removed.
Strip(content) == [content EXCEPT !.padded = FALSE]

Max(a, b) == IF a >= b THEN a ELSE b

Rep(x, n) == [i \in 1..n |-> x]

\* The upstream lists the model draws from: every list of at most MaxShort
\* elements, and the long lists of SearchLimit - 1 to SearchLimit + 1 copies
\* of x followed by at most one more element, so that lists just below, at
\* and above SearchLimit elements occur.
ShortSeqs(S) == UNION {[1..n -> S] : n \in 0..MaxShort}
LongSeqs(S, x) ==
    {Rep(x, n) \o s : n \in (SearchLimit - 1)..(SearchLimit + 1),
                      s \in {<<>>} \cup {<<y>> : y \in S}}
Lists(S, x) == ShortSeqs(S) \cup LongSeqs(S, x)

\* random.shuffle: every arrangement of the list is a possible outcome.
Insertions(x, s) ==
    {SubSeq(s, 1, i) \o <<x>> \o SubSeq(s, i + 1, Len(s)) : i \in 0..Len(s)}
RECURSIVE Arrangements(_)
Arrangements(s) ==
    IF s = <<>> THEN {<<>>}
    ELSE UNION {Insertions(Head(s), p) : p \in Arrangements(Tail(s))}
\* A shuffle that loses the last element.
ShuffleDropping(s) ==
    Arrangements(IF s = <<>> THEN s ELSE SubSeq(s, 1, Len(s) - 1))
Shuffle(s) == Arrangements(s)

\* -------------------------------------------------------------- environment
Artist1 == [id |-> "artist1", name |-> "Artist One"]
Track1 == [id |-> "track1", name |-> "Song One", artists |-> <<Artist1>>]
TrackNoArtists == [id |-> "track2", name |-> "Song Two", artists |-> <<>>]

\* What sp.current_playback() can return.
Playbacks ==
    { None,
      <<>>,
      [is_playing |-> FALSE],
      [is_playing |-> FALSE, item |-> None],
      [is_playing |-> TRUE, item |-> Track1],
      [is_playing |-> TRUE, item |-> TrackNoArtists] }

\* What sp.artist() can return.
ArtistDetails ==
    { [id |-> "artist1"],
      [id |-> "artist1", genres |-> <<>>],
      [id |-> "artist1", genres |-> <<"lo-fi">>],
      [id |-> "artist1", genres |-> <<"lo-fi", "chillhop">>] }

SpotifyTracks == {[uri |-> "u1"], [uri |-> "u2"]}

\* What sp.search(type='track', limit, offset) can return: at most `limit`
\* items (the Web API's contract for limit), or a body without the keys.
SearchResponses(limit) ==
    { [tracks |-> [items |-> l]] :
        l \in {s \in Lists(SpotifyTracks, [uri |-> "u1"]) : Len(s) <= limit} }
    \cup { [tracks |-> [total |-> 0]], [albums |-> <<>>] }

ProbeResponses ==
    { [tracks |-> [total |-> t]] : t \in 0..(OffsetRoom + MaxExtra) }

\* Elements the model may put in its JSON array.
Suggestion1 == PyDict([track_name |-> "t1", artist |-> "a1"])
Suggestion2 == PyDict([track_name |-> "t2", artist |-> "a2"])
SuggestionUnknown == PyDict([track_name |-> "zzz"])
SuggestionString == PyStr("t1 by a1")
Suggestions == {Suggestion1, Suggestion2, SuggestionUnknown, SuggestionString}

\* What openai_response.choices[0].message.content can be.
ChatContents ==
    { [padded |-> p, text |-> t] :
        p \in BOOLEAN,
        t \in InvalidTexts \cup {JsonText(PyDict([tracks |-> "none"]))}
              \cup {JsonText(PyList(l)) : l \in Lists(Suggestions, Suggestion1)} }

\* The catalogue: sp.search(q, type='track', limit=1) for a suggestion's query.
Catalogue(q) ==
    CASE q = <<"t1", " ", "a1">> -> [tracks |-> [items |-> <<[uri |-> "u1"]>>]]
      [] q = <<"t2", " ", "a2">> -> [tracks |-> [items |-> <<[uri |-> "u2"]>>]]
      [] q = <<"zzz", " ", "">> -> [tracks |-> [items |-> <<>>]]
      [] OTHER -> [albums |-> <<>>]

\* Elements ReccoBeats may put in 'content'.
Recco1 == PyDict([id |-> "r1", href |-> "u1"])
Recco2 == PyDict([id |-> "r2", href |-> "u2"])
ReccoNoHref == PyDict([id |-> "r3"])
ReccoString == PyStr("r4")
ReccoItems == {Recco1, Recco2, ReccoNoHref, ReccoString}

\* What requests.get(reccobeats_url, ...) can return.
ReccoResponses ==
    { [status_code |-> c, text |-> Prose] : c \in {201, 404, 429, 500, 503} }
    \cup { [status_code |-> 200, text |-> t] : t \in InvalidTexts }
    \cup { [status_code |-> 200, text |-> JsonText(PyDict([message |-> "ok"]))],
           [status_code |-> 200,
            text |-> JsonText(PyDict([content |-> PyDict([id |-> "r1"])]))] }
    \cup { [status_code |-> 200, text |-> JsonText(PyDict([content |-> PyList(l)]))] :
             l \in Lists(ReccoItems, Recco1) }

Endpoints == {"trigger", "trigger_openai", "trigger_reccobeats"}

\* str(e) of the exception an upstream call raises.
ExcOf(call) ==
    CASE call = "get_cached_token" -> "token refresh failed"
      [] call = "current_playback" -> "current_playback failed"
      [] call = "artist" -> "artist failed"
      [] call = "search" -> "search failed"
      [] call = "chat_completion" -> "chat completion failed"
      [] call = "reccobeats" -> "connection to api.reccobeats.com failed"
      [] call = "start_playback" -> "start_playback failed"
UpstreamCalls ==
    {"get_cached_token", "current_playback", "artist", "search", "chat_completion",
     "reccobeats", "start_playback"}
NoException == ""
\* f"ReccoBeats API error: {response.status_code}"
ReccoErrorMessage(status) == "ReccoBeats API error: " \o ToString(status)
NoTokenMessage == "No token found. Please log in at /login"
IndexErrorMessage == "list index out of range"
AttributeErrorMessage == "'str' object has no attribute 'get'"
NotPlayingMessage == "No song is currently playing"
ParseFailedMessage == "Failed to parse OpenAI response as JSON"
NotAListMessage(ep) ==
    IF ep = "trigger_openai" THEN "OpenAI response JSON is not a list"
    ELSE "ReccoBeats response JSON is not a list"
NoTracksMessage(ep) ==
    IF ep = "trigger_openai" THEN "No tracks found from OpenAI recommendations"
    ELSE "No tracks found from ReccoBeats recommendations"

\* -------------------------------------------------------------------- state
VARIABLES
    hasToken,          \* sp_oauth holds a cached token
    player,            \* the playback state Spotify holds during the request
    pc,                \* position of the request in its handler
    endpoint,          \* the handler serving the request
    current_playback,  \* handler locals, named as in the source
    current_track,
    artist_genres,
    query,
    total_results,
    offset,
    tracks,
    response_message,
    recommendations,
    idx,               \* position of the for loop over recommendations
    track_uris,
    shuffled,          \* random.shuffle(track_uris) has run
    calls,             \* upstream calls issued by the request, in order
    raised,            \* str(e) of the exception caught by the handler
    response           \* what the handler returned: status and JSON body

locals == <<current_playback, current_track, artist_genres, query, total_results,
            offset, tracks, response_message, recommendations, idx, track_uris,
            shuffled>>
vars == <<hasToken, player, pc, endpoint, locals, calls, raised, response>>

NoResponse == [status |-> 0, body |-> <<>>]

primary_artist == current_track.artists[1]

Init ==
    /\ hasToken = FALSE
    /\ player = None
    /\ pc = "idle"
    /\ endpoint = "none"
    /\ current_playback = Unset
    /\ current_track = Unset
    /\ artist_genres = <<>>
    /\ query = ""
    /\ total_results = 0
    /\ offset = 0
    /\ tracks = <<>>
    /\ response_message = Unset
    /\ recommendations = <<>>
    /\ idx = 0
    /\ track_uris = <<>>
    /\ shuffled = FALSE
    /\ calls = <<>>
    /\ raised = NoException
    /\ response = NoResponse

\* ------------------------------------------------------------ handler exits
\* except Exception as e: return jsonify({"error": str(e)}), 500
\* A handler that issues the failed call again instead of returning.
ExceptRetrying(e) ==
    /\ pc' = pc
    /\ raised' = e
    /\ response' = response
Except(e) ==
    /\ pc' = "done"
    /\ raised' = e
    /\ response' = [status |-> HTTP_ERROR, body |-> [error |-> e]]

\* return jsonify(body), status
Return(status, body) ==
    /\ pc' = "done"
    /\ raised' = raised
    /\ response' = [status |-> status, body |-> body]

Goto(next) ==
    /\ pc' = next
    /\ UNCHANGED <<raised, response>>

Call(c) == calls' = Append(calls, c)

\* ------------------------------------------------------------------ /login,
\* /callback: sp_oauth.get_access_token(code) caches the token.
Callback ==
    /\ hasToken' = TRUE
    /\ UNCHANGED <<player, pc, endpoint, locals, calls, raised, response>>

\* A POST arrives at one of the three routes; its locals start unset.
Request(ep) ==
    /\ pc \in {"idle", "done"}
    /\ endpoint' = ep
    /\ player' \in Playbacks
    /\ pc' = "get_spotify_client"
    /\ current_playback' = Unset
    /\ current_track' = Unset
    /\ artist_genres' = <<>>
    /\ query' = ""
    /\ total_results' = 0
    /\ offset' = 0
    /\ tracks' = <<>>
    /\ response_message' = Unset
    /\ recommendations' = <<>>
    /\ idx' = 0
    /\ track_uris' = <<>>
    /\ shuffled' = FALSE
    /\ calls' = <<>>
    /\ raised' = NoException
    /\ response' = NoResponse
    /\ UNCHANGED hasToken

\* get_spotify_client()
GetSpotifyClient ==
    /\ pc = "get_spotify_client"
    /\ Call([name |-> "get_cached_token"])
    /\ \E fails \in BOOLEAN :
        IF fails THEN Except(ExcOf("get_cached_token"))
        ELSE IF ~hasToken THEN Except(NoTokenMessage)
        ELSE Goto("current_playback")
    /\ UNCHANGED <<hasToken, player, endpoint, locals>>

\* The step after the seed track is known, per handler.
AfterSeed(ep) ==
    CASE ep = "trigger" -> "artist"
      [] ep = "trigger_openai" -> "chat_completion"
      [] ep = "trigger_reccobeats" -> "reccobeats"

\* not current_playback or not current_playback.get('item')
NotPlaying(pb) == Falsy(pb) \/ Falsy(Get(pb, "item", None))

\* An exit that reports the missing playback as a server error.
NotPlayingExitAsError == Return(HTTP_ERROR, [error |-> NotPlayingMessage])
\* return jsonify({"error": "No song is currently playing"}), 400
NotPlayingExit == Return(HTTP_BAD_REQUEST, [error |-> NotPlayingMessage])

\* sp.current_playback(), the 400 exit and the seed track's primary artist
CurrentPlayback ==
    /\ pc = "current_playback"
    /\ Call([name |-> "current_playback"])
    /\ \E fails \in BOOLEAN :
        IF fails
        THEN /\ Except(ExcOf("current_playback"))
             /\ UNCHANGED <<current_playback, current_track>>
        ELSE /\ current_playback' = player
             /\ IF NotPlaying(player)
                THEN /\ NotPlayingExit
                     /\ UNCHANGED current_track
                ELSE /\ current_track' = player.item
                     /\ IF Len(player.item.artists) = 0
                        THEN Except(IndexErrorMessage)
                        ELSE Goto(AfterSeed(endpoint))
    /\ UNCHANGED <<hasToken, player, endpoint, artist_genres, query, total_results, offset,
                   tracks, response_message, recommendations, idx, track_uris,
                   shuffled>>

\* ----------------------------------------------------------------- /trigger
\* A derivation that ignores the genres.
DeriveQueryNameOnly(genres, name) == {name}
\* The queries random.choice / the fallback can produce.
DeriveQuery(genres, name) ==
    IF Len(genres) > 0 THEN {genres[i] : i \in DOMAIN genres} ELSE {name}

\* sp.artist(primary_artist['id']) and the query derivation
ArtistLookup ==
    /\ pc = "artist"
    /\ Call([name |-> "artist", id |-> primary_artist.id])
    /\ \E fails \in BOOLEAN, details \in ArtistDetails :
        IF fails
        THEN /\ Except(ExcOf("artist"))
             /\ UNCHANGED <<artist_genres, query>>
        ELSE /\ artist_genres' = Get(details, "genres", <<>>)
             /\ query' \in DeriveQuery(artist_genres', primary_artist.name)
             /\ Goto("probe_search")
    /\ UNCHANGED <<hasToken, player, endpoint, current_playback, current_track, total_results,
                   offset, tracks, response_message, recommendations, idx, track_uris,
                   shuffled>>

\* An off-by-one room for the window.
MaxOffsetOffByOne(total) == Max(0, total - OffsetRoom + 1)
MaxOffset(total) == Max(0, total - OffsetRoom)

\* random.randint(0, max_offset) if max_offset > 0 else 0
Offsets(total) == IF MaxOffset(total) > 0 THEN 0..MaxOffset(total) ELSE {0}

\* sp.search(q=query, type='track', limit=1) and the random offset
ProbeSearch ==
    /\ pc = "probe_search"
    /\ Call([name |-> "search", q |-> query, limit |-> ProbeLimit, offset |-> 0])
    /\ \E fails \in BOOLEAN, initial_search \in ProbeResponses :
        IF fails
        THEN /\ Except(ExcOf("search"))
             /\ UNCHANGED <<total_results, offset>>
        ELSE /\ total_results' = initial_search.tracks.total
             /\ offset' \in Offsets(total_results')
             /\ Goto("search")
    /\ UNCHANGED <<hasToken, player, endpoint, current_playback, current_track, artist_genres,
                   query, tracks, response_message, recommendations, idx, track_uris,
                   shuffled>>

\* [track['uri'] for track in tracks]
Uris(ts) == [i \in DOMAIN ts |-> ts[i].uri]

\* sp.search(q=query, type='track', limit=20, offset=offset), the URI list
\* and its shuffle
Search ==
    /\ pc = "search"
    /\ Call([name |-> "search", q |-> query, limit |-> SearchLimit, offset |-> offset])
    /\ \E fails \in BOOLEAN, search_results \in SearchResponses(SearchLimit) :
        IF fails
        THEN /\ Except(ExcOf("search"))
             /\ UNCHANGED <<tracks, track_uris, shuffled>>
        ELSE /\ tracks' = Get(Get(search_results, "tracks", <<>>), "items", <<>>)
             /\ track_uris' \in Shuffle(Uris(tracks'))
             /\ shuffled' = TRUE
             /\ Goto("start_playback")
    /\ UNCHANGED <<hasToken, player, endpoint, current_playback, current_track, artist_genres,
                   query, total_results, offset, response_message, recommendations, idx>>

\* --------------------------------------------------- after the for loops
\* if not track_uris: return ..., 500 / random.shuffle(track_uris)
Collected(uris) ==
    IF Len(uris) = 0
    THEN /\ track_uris' = uris
         /\ shuffled' = FALSE
         /\ Return(HTTP_ERROR, [error |-> NoTracksMessage(endpoint)])
    ELSE /\ track_uris' \in Shuffle(uris)
         /\ shuffled' = TRUE
         /\ Goto("start_playback")

\* ---------------------------------------------------------- /trigger-openai
\* A parse step that takes any text for an empty list.
ParsedLenient(message) ==
    IF message.text.syntax = "json" THEN message.text.value ELSE PyList(<<>>)
\* json.loads(response_message)
Parsed(message) == JsonLoads(message.text)

\* openai.ChatCompletion.create(...), the parse of its answer and the two
\* parse exits
ChatCompletion ==
    /\ pc = "chat_completion"
    /\ Call([name |-> "chat_completion", seed_track |-> current_track.name,
             seed_artist |-> primary_artist.name])
    /\ \E fails \in BOOLEAN, content \in ChatContents :
        IF fails
        THEN /\ Except(ExcOf("chat_completion"))
             /\ UNCHANGED <<response_message, recommendations, idx, track_uris, shuffled>>
        ELSE /\ response_message' = Strip(content)
             /\ LET parsed == Parsed(response_message') IN
                IF IsParseError(parsed)
                THEN /\ Return(HTTP_ERROR,
                               [error |-> ParseFailedMessage,
                                openai_response |-> response_message',
                                parse_error |-> parsed.error])
                     /\ UNCHANGED <<recommendations, idx, track_uris, shuffled>>
                ELSE IF ~IsInstance(parsed, "list")
                THEN /\ Return(HTTP_ERROR, [error |-> NotAListMessage(endpoint)])
                     /\ UNCHANGED <<recommendations, idx, track_uris, shuffled>>
                ELSE /\ recommendations' = parsed.value
                     /\ idx' = 1
                     /\ IF Len(parsed.value) = 0
                        THEN Collected(<<>>)
                        ELSE /\ Goto("resolve")
                             /\ UNCHANGED <<track_uris, shuffled>>
    /\ UNCHANGED <<hasToken, player, endpoint, current_playback, current_track, artist_genres,
                   query, total_results, offset, tracks>>

\* f"{rec.get('track_name', '')} {rec.get('artist', '')}"
TrackQuery(rec) == <<Get(rec, "track_name", ""), " ", Get(rec, "artist", "")>>

\* One iteration of the loop over the suggestions: a single-result search,
\* the URI kept when there is an item; after the last one, the loop's ending.
Resolve ==
    /\ pc = "resolve"
    /\ LET rec == recommendations[idx] IN
       IF ~IsInstance(rec, "dict")
       THEN /\ Except(AttributeErrorMessage)
            /\ UNCHANGED <<calls, idx, track_uris, shuffled>>
       ELSE /\ Call([name |-> "search", q |-> TrackQuery(rec.value),
                     limit |-> ResolveLimit, offset |-> 0])
            /\ \E fails \in BOOLEAN :
                IF fails
                THEN /\ Except(ExcOf("search"))
                     /\ UNCHANGED <<idx, track_uris, shuffled>>
                ELSE LET search_result == Catalogue(TrackQuery(rec.value))
                         items == Get(Get(search_result, "tracks", <<>>), "items", <<>>)
                         uris == IF Len(items) > 0
                                 THEN Append(track_uris, items[1].uri)
                                 ELSE track_uris
                     IN /\ idx' = idx + 1
                        /\ IF idx = Len(recommendations)
                           THEN Collected(uris)
                           ELSE /\ track_uris' = uris
                                /\ Goto("resolve")
                                /\ UNCHANGED shuffled
    /\ UNCHANGED <<hasToken, player, endpoint, current_playback, current_track, artist_genres,
                   query, total_results, offset, tracks, response_message,
                   recommendations>>

\* ------------------------------------------------------ /trigger-reccobeats
\* rec.get('href', '') for each recommendation
Hrefs(recs) == [i \in DOMAIN recs |-> Get(recs[i].value, "href", "")]

\* Where the loop stops: at the first element that is no dict (rec.get
\* raises there), or past the end.
FirstNonDict(recs) ==
    IF \A i \in DOMAIN recs : IsInstance(recs[i], "dict") THEN Len(recs) + 1
    ELSE CHOOSE i \in DOMAIN recs :
            /\ ~IsInstance(recs[i], "dict")
            /\ \A j \in 1..(i - 1) : IsInstance(recs[j], "dict")

\* requests.get(reccobeats_url, ...), the status and type exits, the href
\* list and the loop's ending
ReccoBeats ==
    /\ pc = "reccobeats"
    /\ Call([name |-> "reccobeats", size |-> ReccoSize, seeds |-> <<current_track.id>>])
    /\ \E fails \in BOOLEAN, resp \in ReccoResponses :
        IF fails
        THEN /\ Except(ExcOf("reccobeats"))
             /\ UNCHANGED <<recommendations, idx, track_uris, shuffled>>
        ELSE IF resp.status_code # HTTP_OK
        THEN /\ Return(HTTP_ERROR,
                       [error |-> ReccoErrorMessage(resp.status_code),
                        response_text |-> resp.text])
             /\ UNCHANGED <<recommendations, idx, track_uris, shuffled>>
        ELSE LET json_response == JsonLoads(resp.text) IN
             IF IsParseError(json_response)
             THEN /\ Except(json_response.error)
                  /\ UNCHANGED <<recommendations, idx, track_uris, shuffled>>
             ELSE LET content == Get(json_response.value, "content", PyList(<<>>)) IN
                  IF ~IsInstance(content, "list")
                  THEN /\ Return(HTTP_ERROR, [error |-> NotAListMessage(endpoint)])
                       /\ UNCHANGED <<recommendations, idx, track_uris, shuffled>>
                  ELSE /\ recommendations' = content.value
                       /\ idx' = FirstNonDict(content.value)
                       /\ IF idx' <= Len(content.value)
                          THEN /\ Except(AttributeErrorMessage)
                               /\ track_uris' = Hrefs(SubSeq(content.value, 1, idx' - 1))
                               /\ UNCHANGED shuffled
                          ELSE Collected(Hrefs(content.value))
    /\ UNCHANGED <<hasToken, player, endpoint, current_playback, current_track, artist_genres,
                   query, total_results, offset, tracks, response_message>>

\* ------------------------------------------------------------ shared ending
\* The JSON body of each handler's success response.
SuccessBody ==
    CASE endpoint = "trigger" ->
           [message |-> "Custom shuffled song radio started",
            seed_track |-> current_track.name,
            seed_artist |-> primary_artist.name,
            search_query |-> query,
            track_uris |-> track_uris]
      [] endpoint = "trigger_openai" ->
           [message |-> "Custom radio generated using OpenAI recommendations",
            openai_recommendations |-> recommendations,
            track_uris |-> track_uris]
      [] endpoint = "trigger_reccobeats" ->
           [message |-> "Custom radio generated using ReccoBeats recommendations",
            reccobeats_recommendations |-> recommendations,
            track_uris |-> track_uris]

\* sp.start_playback(uris=track_uris) and the success response
StartPlayback ==
    /\ pc = "start_playback"
    /\ Call([name |-> "start_playback", uris |-> track_uris])
    /\ \E fails \in BOOLEAN :
        IF fails THEN Except(ExcOf("start_playback"))
        ELSE Return(HTTP_OK, SuccessBody)
    /\ UNCHANGED <<hasToken, player, endpoint, locals>>

Next ==
    \/ Callback
    \/ \E ep \in Endpoints : Request(ep)
    \/ GetSpotifyClient
    \/ CurrentPlayback
    \/ ArtistLookup
    \/ ProbeSearch
    \/ Search
    \/ ChatCompletion
    \/ Resolve
    \/ ReccoBeats
    \/ StartPlayback

Spec == Init /\ [][Next]_vars

\* ------------------------------------------------------------ vocabulary
Done == pc = "done"
Succeeded == Done /\ response.status = HTTP_OK
IssuedAny(names) == \E i \in DOMAIN calls : calls[i].name \in names
PlaybackCalls == {i \in DOMAIN calls : calls[i].name = "start_playback"}
Elements(s) == {s[i] : i \in DOMAIN s}
Count(s, x) == Cardinality({i \in DOMAIN s : s[i] = x})
SameMultiset(s, t) ==
    /\ Len(s) = Len(t)
    /\ \A x \in Elements(s) \cup Elements(t) : Count(s, x) = Count(t, x)
\* The playlist bound of the data model is the page size of the keyword search.
PlaylistMax == SearchLimit

\* ---------------------------------------------------------------- C1
\* C1 as stated: whenever Spotify holds no active playback for the request,
\* the finished request is a 400 "No song is currently playing", whether or
\* not a token is cached, and issued no search, recommendation, LLM or
\* playback-start call.
C1_NoPlaybackAlways400 ==
    (Done /\ NotPlaying(player)) =>
        /\ response.status = HTTP_BAD_REQUEST
        /\ response.body.error = NotPlayingMessage
        /\ ~IssuedAny({"search", "artist", "chat_completion", "reccobeats",
                       "start_playback"})

\* C1 amended: in every handler, once a token was found and
\* current_playback() has returned an empty value or one without an item,
\* the request is finished with 400 "No song is currently playing" and the
\* token lookup and current_playback are the only upstream calls it issued.
C1_NoPlayback400 ==
    (current_playback # Unset /\ NotPlaying(current_playback)) =>
        /\ Done
        /\ response.status = HTTP_BAD_REQUEST
        /\ response.body = [error |-> NotPlayingMessage]
        /\ Len(calls) = 2
        /\ calls[1].name = "get_cached_token"
        /\ calls[2].name = "current_playback"

C1_Witness ==
    /\ Done
    /\ endpoint = "trigger_reccobeats"
    /\ current_playback = [is_playing |-> FALSE, item |-> None]
    /\ response.status = HTTP_BAD_REQUEST

\* ---------------------------------------------------------------- C2
\* C2: no handler calls start_playback with an empty URI list, and a request
\* that acquired zero tracks ends with an error response.
C2_NeverPlaysEmptyList ==
    /\ \A i \in PlaybackCalls : Len(calls[i].uris) > 0
    /\ (Succeeded => Len(response.body.track_uris) > 0)

\* ---------------------------------------------------------------- C3
\* No suggestion / recommendation of the finished loop gave a playable URI.
NoneResolved ==
    /\ endpoint \in {"trigger_openai", "trigger_reccobeats"}
    /\ idx > Len(recommendations)
    /\ \A i \in DOMAIN recommendations : IsInstance(recommendations[i], "dict")
    /\ \/ /\ endpoint = "trigger_openai"
          /\ \A i \in DOMAIN recommendations :
                Len(Get(Get(Catalogue(TrackQuery(recommendations[i].value)),
                            "tracks", <<>>), "items", <<>>)) = 0
       \/ /\ endpoint = "trigger_reccobeats"
          /\ \A i \in DOMAIN recommendations :
                "href" \notin DOMAIN recommendations[i].value

\* C3: in /trigger-openai and /trigger-reccobeats, when zero candidates
\* resolve to a playable URI the request ends with 500 and a "No tracks
\* found" message, and start_playback is never called.
C3_NoneResolvedIs500 ==
    NoneResolved =>
        /\ Done
        /\ response.status = HTTP_ERROR
        /\ response.body.error = NoTracksMessage(endpoint)
        /\ PlaybackCalls = {}

\* ---------------------------------------------------------------- C4
\* C4: a successful /trigger returns at most SearchLimit URIs, the list is a
\* rearrangement of the URIs of the second search's items (same multiset),
\* and it is the list that was passed to start_playback.
C4_KeywordPermutation ==
    (Succeeded /\ endpoint = "trigger") =>
        /\ Len(response.body.track_uris) <= SearchLimit
        /\ SameMultiset(response.body.track_uris, Uris(tracks))
        /\ calls[Len(calls)].name = "start_playback"
        /\ calls[Len(calls)].uris = response.body.track_uris

C4_Witness ==
    /\ Succeeded
    /\ endpoint = "trigger"
    /\ Len(response.body.track_uris) = SearchLimit
    /\ response.body.track_uris # Uris(tracks)

\* ---------------------------------------------------------------- C5
\* C5: in /trigger-openai, a response that is not JSON ends the request with
\* 500 and the response text under openai_response; JSON that is not a list
\* ends it with 500; either way no search and no start_playback is issued.
C5_ParseFailureIs500 ==
    (endpoint = "trigger_openai" /\ response_message # Unset) =>
        LET parsed == JsonLoads(response_message.text) IN
        /\ (IsParseError(parsed) =>
              /\ Done
              /\ response.status = HTTP_ERROR
              /\ "openai_response" \in DOMAIN response.body
              /\ response.body.openai_response = response_message
              /\ ~IssuedAny({"search", "start_playback"}))
        /\ ((~IsParseError(parsed) /\ ~IsInstance(parsed, "list")) =>
              /\ Done
              /\ response.status = HTTP_ERROR
              /\ ~IssuedAny({"search", "start_playback"}))

C5_Witness ==
    /\ Done
    /\ endpoint = "trigger_openai"
    /\ response_message # Unset
    /\ response_message.text = TruncatedArray
    /\ response.body.parse_error = JSONDecodeError(TruncatedArray.raw)
    /\ response.status = HTTP_ERROR
    /\ response.body.openai_response = response_message

\* ---------------------------------------------------------------- C6
\* The query of /trigger has been derived.
QueryDerived ==
    /\ endpoint = "trigger"
    /\ \/ pc \in {"probe_search", "search", "start_playback"}
       \/ Done /\ Len(calls) >= 4

\* C6: in /trigger the query is an element of the artist's genre list when
\* that list is non-empty and the primary artist's name otherwise; every
\* search is issued with that query and it is the search_query reported.
C6_QueryDerivation ==
    QueryDerived =>
        /\ (Len(artist_genres) > 0 => query \in Elements(artist_genres))
        /\ (Len(artist_genres) = 0 => query = primary_artist.name)
        /\ \A i \in DOMAIN calls : calls[i].name = "search" => calls[i].q = query
        /\ (Succeeded => response.body.search_query = query)

C6_Witness ==
    /\ Succeeded
    /\ endpoint = "trigger"
    /\ artist_genres = <<"lo-fi", "chillhop">>
    /\ response.body.search_query = "chillhop"
    /\ Cardinality({i \in DOMAIN calls : calls[i].name = "search"}) = 2

\* ---------------------------------------------------------------- C7
\* The field each variant adds to its success response.
VariantField ==
    CASE endpoint = "trigger" -> "search_query"
      [] endpoint = "trigger_openai" -> "openai_recommendations"
      [] endpoint = "trigger_reccobeats" -> "reccobeats_recommendations"
      [] OTHER -> "none"

\* C7: every handler's success response holds message, seed_track,
\* seed_artist, track_uris and the variant's own field.
C7_SuccessFields ==
    Succeeded =>
        {"message", "seed_track", "seed_artist", "track_uris", VariantField}
            \subseteq DOMAIN response.body

\* ---------------------------------------------------------------- C8
\* C8: in every variant the list passed to start_playback and returned as
\* track_uris has at most PlaylistMax elements, whatever the upstream sent.
C8_PlaylistAtMost20 ==
    /\ \A i \in PlaybackCalls : Len(calls[i].uris) <= PlaylistMax
    /\ (Succeeded => Len(response.body.track_uris) <= PlaylistMax)

\* ---------------------------------------------------------------- C9
\* C9: once a call has raised, the request is finished with 500 and the
\* exception's message, and the call that raised is the last one issued;
\* start_playback is issued at most once, last, with the shuffled list, after
\* current_playback returned.
C9_NoRetries ==
    /\ (raised # NoException =>
          /\ Done
          /\ response.status = HTTP_ERROR
          /\ response.body = [error |-> raised])
    /\ \A c \in UpstreamCalls :
          raised = ExcOf(c) => calls[Len(calls)].name = c
    /\ Cardinality(PlaybackCalls) <= 1
    /\ \A i \in PlaybackCalls :
          /\ i = Len(calls)
          /\ shuffled
          /\ calls[i].uris = track_uris
          /\ current_playback # Unset
          /\ \E j \in 1..(i - 1) : calls[j].name = "current_playback"

C9_Witness ==
    /\ Done
    /\ raised = ExcOf("start_playback")
    /\ endpoint = "trigger_openai"
    /\ Len(calls) > 4
    /\ Cardinality(PlaybackCalls) = 1

\* ---------------------------------------------------------------- C10
\* The offset of /trigger has been chosen.
OffsetChosen ==
    /\ endpoint = "trigger"
    /\ \/ pc \in {"search", "start_playback"}
       \/ Done /\ Len(calls) >= 5

\* C10: the offset lies in 0..max(0, T - 20) for the total T the probe
\* reported: it is 0 when T <= 20, and offset + 20 <= T when T >= 20; the
\* second search is issued with that offset.
C10_OffsetWindow ==
    OffsetChosen =>
        /\ 0 <= offset
        /\ offset <= Max(0, total_results - OffsetRoom)
        /\ (total_results <= OffsetRoom => offset = 0)
        /\ (total_results >= OffsetRoom => offset + SearchLimit <= total_results)
        /\ (Len(calls) >= 5 => calls[5].offset = offset)

C10_Witness ==
    /\ OffsetChosen
    /\ Done
    /\ total_results = OffsetRoom + 2
    /\ offset = 2
    /\ calls[5].offset = 2
====
